---------------------------- MODULE Spec2Model ----------------------------
(***************************************************************************)
(* A model of the PostgreSQL table scan of postgres_scanner: Bind, the     *)
(* shared page cursor and its mutex, the per-worker connection and scan    *)
(* loop over the binary COPY stream, the type mapper and the numeric       *)
(* decoder.                                                                *)
(***************************************************************************)
EXTENDS Integers, Sequences, FiniteSets, TLC

(***************************************************************************)
(* Bounds of the model.                                                    *)
(***************************************************************************)
NumWorkers == 2
MaxPages == 3
MaxPagesPerTask == 2
MaxTuples == 2
STANDARD_VECTOR_SIZE == 2

Workers == 1..NumWorkers
NoWorker == 0
SnapshotIds == {"00000003-1", "00000004-1"}
NoSnapshot == ""

(***************************************************************************)
(* Unsigned 32-bit and 64-bit page numbers are held as two limbs,          *)
(* <<high, low>>, low in 0..65535, so that 4294967295 is representable.    *)
(***************************************************************************)
Limb == 2^16
U(n) == <<n \div Limb, n % Limb>>
PageLess(a, b) == a[1] < b[1] \/ (a[1] = b[1] /\ a[2] < b[2])
PageLeq(a, b) == ~PageLess(b, a)
PageAdd(a, n) == <<a[1] + ((a[2] + n) \div Limb), (a[2] + n) % Limb>>
PageDiv(a, n) == IF a[1] = 0 THEN a[2] \div n ELSE (a[1] * Limb + a[2]) \div n

POSTGRES_TID_MAX == <<65535, 65535>>

VARIABLES
    phase,          \* "unbound", "bound", "running", "destroyed"
    pages_approx,   \* bind_data.pages_approx
    pages_per_task, \* bind_data.pages_per_task
    in_recovery,    \* bind_data.in_recovery
    snapshot,       \* bind_data.snapshot
    filters_ok,     \* whether every pushed-down filter is a supported node
    exported,       \* the snapshot id the server exported to Bind's transaction
    page_idx,       \* gstate.page_idx
    max_threads,    \* gstate.max_threads
    lock,           \* the holder of gstate.lock, or NoWorker
    pc,             \* each worker's position
    ret,            \* the caller PostgresParallelStateNext returns to
    lstate,         \* each worker's PostgresLocalState
    pgconn,         \* the libpq connections, by owner
    handed,         \* the tasks handed out, in order
    column,         \* the remote type name of the one projected column
    stream,         \* the COPY messages the server has still to send to each worker
    buf,            \* each worker's PostgresBinaryBuffer (a local of PostgresScan)
    output_offset,  \* the local output_offset of each worker's PostgresScan call
    output,         \* each worker's output chunk: its rows and its cardinality
    outstanding,    \* COPY message buffers obtained and not yet freed, per worker
    header_seen,    \* the first message of each worker's current stream, as CheckHeader saw it
    sent,           \* the tuples the server has put into each worker's streams, in order
    emitted,        \* the rows of the chunks each worker's scan calls have returned, in order
    catalog,        \* the rows of PrepareBind's column query
    bind_cols,      \* bind_data.columns, with bind_data.types and bind_data.needs_cast
    numeric,        \* a numeric field on the wire, and what decoding it gave
    list_vec,       \* a LIST output vector, and the array fields decoded into it
    rowid,          \* a ctid field on the wire, and the row id made of it
    filter          \* a pushed-down table filter, and what TransformFilter made of it

vars == <<phase, pages_approx, pages_per_task, in_recovery, snapshot, filters_ok,
          exported, page_idx, max_threads, lock, pc, ret, lstate, pgconn, handed,
          column, stream, buf, output_offset, output, outstanding, header_seen,
          sent, emitted, catalog, bind_cols, numeric, list_vec, rowid, filter>>

codec_vars == <<catalog, bind_cols, numeric, list_vec, rowid, filter>>
more_vars == <<list_vec, rowid, filter>>
scan_vars == <<phase, pages_approx, pages_per_task, in_recovery, snapshot, filters_ok,
               exported, page_idx, max_threads, lock, pc, ret, lstate, pgconn, handed,
               column, stream, buf, output_offset, output, outstanding, header_seen,
               sent, emitted>>
ghost_vars == <<sent, emitted>>

BindOwner == NoWorker
Owners == Workers \cup {BindOwner}
ClosedConn == [opened |-> FALSE, txn |-> "", snap |-> NoSnapshot, copies |-> 0, finished |-> 0]
NoSql == <<>>
NullBuffer == [buffer |-> <<>>, alloc |-> FALSE, buffer_ptr |-> 0, len |-> 0]
EmptyChunk == [rows |-> <<>>, cardinality |-> 0]
NoHeader == [seen |-> FALSE, msg |-> <<>>, passed |-> FALSE, cursor |-> 0]

NoNumeric ==
    [type |-> "", wire |-> <<>>, unscaled |-> 0, status |-> "none", written |-> FALSE,
     value |-> 0, divisor |-> 1, nread |-> 0]

NoList == [entries |-> <<>>, child |-> <<>>, size |-> 0, log |-> <<>>, status |-> "ok"]
NoRowId == [wire |-> <<>>, status |-> "none", value |-> <<>>]
NoFilter == [node |-> <<>>, status |-> "none", sql |-> <<>>]

MoreInit ==
    /\ list_vec = NoList
    /\ rowid = NoRowId
    /\ filter = NoFilter

ScanInit ==
    /\ phase = "unbound"
    /\ pages_approx = U(0)
    /\ pages_per_task = 0
    /\ in_recovery = FALSE
    /\ snapshot = NoSnapshot
    /\ filters_ok = TRUE
    /\ exported = NoSnapshot
    /\ page_idx = U(0)
    /\ max_threads = 0
    /\ lock = NoWorker
    /\ pc = [w \in Workers |-> "new"]
    /\ ret = [w \in Workers |-> "init"]
    /\ lstate = [w \in Workers |-> [done |-> FALSE, exec |-> FALSE, sql |-> NoSql, conn |-> FALSE]]
    /\ pgconn = [o \in Owners |-> ClosedConn]
    /\ handed = <<>>
    /\ column = "text"
    /\ stream = [w \in Workers |-> <<>>]
    /\ buf = [w \in Workers |-> NullBuffer]
    /\ output_offset = [w \in Workers |-> 0]
    /\ output = [w \in Workers |-> EmptyChunk]
    /\ outstanding = [w \in Workers |-> 0]
    /\ header_seen = [w \in Workers |-> NoHeader]
    /\ sent = [w \in Workers |-> <<>>]
    /\ emitted = [w \in Workers |-> <<>>]

Init ==
    /\ ScanInit
    /\ catalog = <<>>
    /\ bind_cols = <<>>
    /\ numeric = NoNumeric
    /\ MoreInit

(***************************************************************************)
(* Bind: PostgresBind opens the connection and begins the transaction,     *)
(* PrepareBind asks for the recovery state, exports the snapshot and reads *)
(* GREATEST(relpages, 1).  pages_per_task is a field of PostgresBindData.  *)
(***************************************************************************)
RepeatableRead == "REPEATABLE READ READ ONLY"

PrepareBindSnapshot(rec, snap) == IF ~rec THEN snap ELSE NoSnapshot

PostgresBind(ap, ppt, rec, snap, fok, col) ==
    /\ phase = "unbound"
    /\ phase' = "bound"
    /\ pgconn' = [pgconn EXCEPT ![BindOwner] =
                      [ClosedConn EXCEPT !.opened = TRUE, !.txn = RepeatableRead]]
    /\ in_recovery' = rec
    /\ exported' = IF rec THEN NoSnapshot ELSE snap
    /\ snapshot' = PrepareBindSnapshot(rec, snap)
    /\ pages_approx' = U(ap)
    /\ pages_per_task' = ppt
    /\ filters_ok' = fok
    /\ column' = col
    /\ UNCHANGED <<page_idx, max_threads, lock, pc, ret, lstate, handed, stream, buf,
                   output_offset, output, outstanding, header_seen>>
    /\ UNCHANGED codec_vars
    /\ UNCHANGED ghost_vars

(***************************************************************************)
(* PostgresInitGlobalState: page_idx(0), max_threads from                  *)
(* PostgresMaxThreads.                                                     *)
(***************************************************************************)
PostgresMaxThreads(approx, ppt) == PageDiv(approx, ppt)

PostgresInitGlobalState ==
    /\ phase = "bound"
    /\ phase' = "running"
    /\ page_idx' = U(0)
    /\ max_threads' = PostgresMaxThreads(pages_approx, pages_per_task)
    /\ UNCHANGED <<pages_approx, pages_per_task, in_recovery, snapshot, filters_ok,
                   exported, lock, pc, ret, lstate, pgconn, handed, column, stream, buf,
                   output_offset, output, outstanding, header_seen>>
    /\ UNCHANGED codec_vars
    /\ UNCHANGED ghost_vars

(***************************************************************************)
(* PostgresScanConnect: the connection a worker ends up with.  A PGExec    *)
(* that fails throws, and the PGconn is then neither returned nor          *)
(* finished.                                                               *)
(***************************************************************************)
ConnectOutcomes == {"ok", "begin_fails", "snapshot_fails"}

PostgresScanConnect_NoSnapshot(rec, snap, outcome) ==
    IF outcome = "begin_fails"
    THEN [ClosedConn EXCEPT !.opened = TRUE]
    ELSE [ClosedConn EXCEPT !.opened = TRUE, !.txn = RepeatableRead]

PostgresScanConnect(rec, snap, outcome) ==
    IF outcome = "begin_fails"
    THEN [ClosedConn EXCEPT !.opened = TRUE]
    ELSE [ClosedConn EXCEPT !.opened = TRUE, !.txn = RepeatableRead,
                            !.snap = IF ~rec /\ outcome = "ok" THEN snap ELSE NoSnapshot]

(***************************************************************************)
(* PostgresInitLocalState up to its call of PostgresParallelStateNext.     *)
(* When PostgresScanConnect throws, local_state is destroyed with          *)
(* conn == nullptr, so its destructor finishes nothing.                    *)
(***************************************************************************)
PostgresInitLocalState(w, outcome) ==
    /\ phase = "running"
    /\ pc[w] = "new"
    /\ outcome = "snapshot_fails" => ~in_recovery
    /\ pgconn' = [pgconn EXCEPT ![w] = PostgresScanConnect(in_recovery, snapshot, outcome)]
    /\ IF outcome = "ok"
       THEN /\ lstate' = [lstate EXCEPT ![w].conn = TRUE]
            /\ pc' = [pc EXCEPT ![w] = "lock"]
       ELSE /\ lstate' = lstate
            /\ pc' = [pc EXCEPT ![w] = "destroyed"]
    /\ ret' = [ret EXCEPT ![w] = "init"]
    /\ UNCHANGED <<phase, pages_approx, pages_per_task, in_recovery, snapshot, filters_ok,
                   exported, page_idx, max_threads, lock, handed, column, stream, buf,
                   output_offset, output, outstanding, header_seen>>
    /\ UNCHANGED codec_vars
    /\ UNCHANGED ghost_vars

(***************************************************************************)
(* lock_guard<mutex> parallel_lock(gstate.lock)                            *)
(***************************************************************************)
AcquireLock_NoWait(w) ==
    /\ pc[w] = "lock"
    /\ lock' = w
    /\ pc' = [pc EXCEPT ![w] = "next"]
    /\ UNCHANGED <<phase, pages_approx, pages_per_task, in_recovery, snapshot, filters_ok,
                   exported, page_idx, max_threads, ret, lstate, pgconn, handed, column,
                   stream, buf, output_offset, output, outstanding, header_seen>>
    /\ UNCHANGED codec_vars
    /\ UNCHANGED ghost_vars

AcquireLock(w) ==
    /\ pc[w] = "lock"
    /\ lock = NoWorker
    /\ lock' = w
    /\ pc' = [pc EXCEPT ![w] = "next"]
    /\ UNCHANGED <<phase, pages_approx, pages_per_task, in_recovery, snapshot, filters_ok,
                   exported, page_idx, max_threads, ret, lstate, pgconn, handed, column,
                   stream, buf, output_offset, output, outstanding, header_seen>>
    /\ UNCHANGED codec_vars
    /\ UNCHANGED ghost_vars

(***************************************************************************)
(* PostgresParallelStateNext, under the lock.  PageMax is the upper bound  *)
(* of the task, NextPageIdx the cursor after it.  PostgresInitInternal     *)
(* throws from TransformFilter on an unsupported filter node, before the   *)
(* cursor is advanced; the lock_guard releases the mutex on every exit.    *)
(***************************************************************************)
PageMax_Strict(idx, ppt, approx) ==
    IF PageLess(approx, PageAdd(idx, ppt)) THEN POSTGRES_TID_MAX ELSE PageAdd(idx, ppt)

PageMax(idx, ppt, approx) ==
    IF PageLeq(approx, PageAdd(idx, ppt)) THEN POSTGRES_TID_MAX ELSE PageAdd(idx, ppt)

NextPageIdx_Skip(idx, ppt) == PageAdd(idx, ppt + 1)

NextPageIdx(idx, ppt) == PageAdd(idx, ppt)

HasWork_Leq(idx, approx) == PageLeq(idx, approx)

\* if (gstate.page_idx < bind_data->pages_approx)
HasWork(idx, approx) == PageLess(idx, approx)

PostgresInitInternal(st, task_min, task_max) ==
    [st EXCEPT !.sql = <<task_min, task_max>>, !.exec = FALSE, !.done = FALSE]

BufferReset(b) == NullBuffer

\* the rows a returned chunk shows: those below its cardinality
Chunk(out) == SubSeq(out.rows, 1, out.cardinality)

Freed(b) == IF b.alloc THEN 1 ELSE 0

NextReturnsTask(w) ==
    /\ HasWork(page_idx, pages_approx)
    /\ filters_ok
    /\ lstate' = [lstate EXCEPT ![w] =
           PostgresInitInternal(@, page_idx, PageMax(page_idx, pages_per_task, pages_approx))]
    /\ handed' = Append(handed, [lo |-> page_idx,
                                  hi |-> PageMax(page_idx, pages_per_task, pages_approx)])
    /\ page_idx' = NextPageIdx(page_idx, pages_per_task)
    /\ pc' = [pc EXCEPT ![w] = IF ret[w] = "init" THEN "idle" ELSE "loop"]
    /\ UNCHANGED <<pgconn, buf, outstanding, emitted>>

NextThrows(w) ==
    /\ HasWork(page_idx, pages_approx)
    /\ ~filters_ok
    /\ IF ret[w] = "init"
       THEN \* local_state is destroyed while unwinding: its destructor finishes conn
            /\ pc' = [pc EXCEPT ![w] = "destroyed"]
            /\ pgconn' = [pgconn EXCEPT ![w].finished = @ + 1]
            /\ lstate' = [lstate EXCEPT ![w].conn = FALSE]
       ELSE /\ pc' = [pc EXCEPT ![w] = "error"]
            /\ UNCHANGED <<pgconn, lstate>>
    /\ buf' = [buf EXCEPT ![w] = BufferReset(@)]
    /\ outstanding' = [outstanding EXCEPT ![w] = @ - Freed(buf[w])]
    /\ UNCHANGED <<handed, page_idx, emitted>>

NextReturnsNoWork(w) ==
    /\ ~HasWork(page_idx, pages_approx)
    /\ lstate' = [lstate EXCEPT ![w].done = TRUE]
    /\ pc' = [pc EXCEPT ![w] = "idle"]
    /\ buf' = [buf EXCEPT ![w] = BufferReset(@)]
    /\ outstanding' = [outstanding EXCEPT ![w] = @ - Freed(buf[w])]
    /\ emitted' = IF ret[w] = "scan" THEN [emitted EXCEPT ![w] = @ \o Chunk(output[w])]
                  ELSE emitted
    /\ UNCHANGED <<pgconn, handed, page_idx>>

PostgresParallelStateNext(w) ==
    /\ pc[w] = "next"
    /\ lock = w
    /\ lock' = NoWorker
    /\ \/ NextReturnsTask(w)
       \/ NextThrows(w)
       \/ NextReturnsNoWork(w)
    /\ UNCHANGED <<phase, pages_approx, pages_per_task, in_recovery, snapshot, filters_ok,
                   exported, max_threads, ret, column, stream, output_offset, output,
                   header_seen, sent>>
    /\ UNCHANGED codec_vars

(***************************************************************************)
(* The binary COPY stream, as bytes.  A message is a sequence of bytes;    *)
(* the first message of a stream holds the header and the first tuple (or  *)
(* the trailer), every later message one tuple or the trailer.             *)
(***************************************************************************)
Byte == 0..255
Signature == <<80, 71, 67, 79, 80, 89, 10, 255, 13, 10, 0>>  \* PGCOPY\n\377\r\n\0
\* the first 11 characters of the C literal "PGCOPY\\n\\377\\r\\n\\0" of CheckHeader
HeaderLiteral == <<80, 71, 67, 79, 80, 89, 92, 110, 92, 51, 55>>
Zeros(n) == [i \in 1..n |-> 0]
Trailer == <<255, 255>>
NullField == <<255, 255, 255, 255>>
Field(payload) == <<0, 0, 0, Len(payload)>> \o payload
Tuple(field) == <<0, 1>> \o field

ByteAt(b, p, oob) == IF p \in 1..Len(b) THEN b[p] ELSE oob
\* (int16_t)ntohs(Read<uint16_t>()) and (int32_t)ntohl(Read<uint32_t>())
ReadInt16(b, p, oob) ==
    LET v == ByteAt(b, p, oob) * 256 + ByteAt(b, p + 1, oob)
    IN  IF v >= 32768 THEN v - 65536 ELSE v
ReadInt32(b, p, oob) ==
    LET b1 == ByteAt(b, p, oob)
        hi == IF b1 >= 128 THEN b1 - 256 ELSE b1
    IN  hi * 16777216 + ByteAt(b, p + 1, oob) * 65536 + ByteAt(b, p + 2, oob) * 256
           + ByteAt(b, p + 3, oob)
Bytes(b, p, n, oob) == [i \in 1..n |-> ByteAt(b, p + i - 1, oob)]

(***************************************************************************)
(* One PostgresScan call works on a frame: the worker's local state, its   *)
(* buffer, stream, connection and output.  status is "run" while the       *)
(* iteration goes on, and "continue", "return" or "throw" once it ended.   *)
(***************************************************************************)
Frame(w) ==
    [st |-> lstate[w], b |-> buf[w], strm |-> stream[w], conn |-> pgconn[w],
     off |-> output_offset[w], out |-> output[w], outst |-> outstanding[w],
     hdr |-> header_seen[w], sent |-> sent[w], status |-> "run"]

\* The tuples in the stream s as the server laid it out: the messages after
\* the header of 19 + L bytes, L its extension length, up to the trailer.
HeaderLength(s) == 19 + ReadInt32(s[1], 16, 0)
StreamBody(s) ==
    IF s = <<>> \/ Len(s[1]) < 19 \/ Len(s[1]) < HeaderLength(s) THEN <<>>
    ELSE <<SubSeq(s[1], HeaderLength(s) + 1, Len(s[1]))>> \o Tail(s)
SentField(msg) ==
    IF SubSeq(msg, 3, 6) = NullField THEN [null |-> TRUE, val |-> <<>>]
    ELSE [null |-> FALSE, val |-> SubSeq(msg, 7, Len(msg))]
RECURSIVE SentFields(_)
SentFields(msgs) ==
    IF msgs = <<>> \/ Head(msgs) = Trailer THEN <<>>
    ELSE <<SentField(Head(msgs))>> \o SentFields(Tail(msgs))
SentTuples(s) == SentFields(StreamBody(s))

\* PostgresBinaryBuffer::Next
BufferNext(f) ==
    LET got == f.strm # <<>>
        msg == IF got THEN Head(f.strm) ELSE <<>>
        nb == [buffer |-> msg, alloc |-> got,
               buffer_ptr |-> 1, len |-> IF got THEN Len(msg) ELSE 0 - 1]
        g == [f EXCEPT !.strm = IF got THEN Tail(f.strm) ELSE <<>>,
                       !.outst = f.outst - Freed(f.b) + (IF got THEN 1 ELSE 0)]
    IN  IF ~nb.alloc \/ nb.len < 2
        THEN [g EXCEPT !.b = [nb EXCEPT !.buffer_ptr = 0], !.status = "throw"]
        ELSE [g EXCEPT !.b = nb]

\* PostgresBinaryBuffer::CheckHeader: whether it throws
CheckHeaderThrows(b) ==
    \/ b.len < 19
    \/ Bytes(b.buffer, b.buffer_ptr, 11, 0) = HeaderLiteral

CheckHeader(f) ==
    IF f.status # "run" THEN f
    ELSE IF CheckHeaderThrows(f.b)
    THEN [f EXCEPT !.status = "throw",
                   !.hdr = [seen |-> TRUE, msg |-> f.b.buffer, passed |-> FALSE,
                            cursor |-> f.b.buffer_ptr - 1]]
    ELSE [f EXCEPT !.b.buffer_ptr = @ + 19,
                   !.hdr = [seen |-> TRUE, msg |-> f.b.buffer, passed |-> TRUE,
                            cursor |-> f.b.buffer_ptr - 1 + 19]]

ExecCopy_Reissue(f, s, copy_ok) ==
    IF ~copy_ok THEN [f EXCEPT !.status = "throw"]
    ELSE CheckHeader(BufferNext([f EXCEPT !.conn.copies = @ + 1, !.strm = s,
                                          !.st.exec = TRUE, !.hdr = NoHeader,
                                          !.sent = @ \o SentTuples(s)]))

\* if (!local_state.exec) { PGQuery(COPY); exec = true; buf.Next(); buf.CheckHeader(); }
ExecCopy(f, s, copy_ok) ==
    IF f.st.exec THEN f
    ELSE IF ~copy_ok THEN [f EXCEPT !.status = "throw"]
    ELSE CheckHeader(BufferNext([f EXCEPT !.conn.copies = @ + 1, !.strm = s,
                                          !.st.exec = TRUE, !.hdr = NoHeader,
                                          !.sent = @ \o SentTuples(s)]))

SetCardinality_AfterReturn(f) ==
    IF f.status # "run" THEN f
    ELSE IF f.off = STANDARD_VECTOR_SIZE THEN [f EXCEPT !.status = "return"]
    ELSE [f EXCEPT !.out.cardinality = f.off]

\* output.SetCardinality(output_offset); if (output_offset == STANDARD_VECTOR_SIZE) return;
SetCardinality(f) ==
    IF f.status # "run" THEN f
    ELSE [f EXCEPT !.out.cardinality = f.off,
                   !.status = IF f.off = STANDARD_VECTOR_SIZE THEN "return" ELSE "run"]

\* if (!buf.Ready()) buf.Next();
EnsureReady(f) ==
    IF f.status # "run" \/ f.b.buffer_ptr # 0 THEN f ELSE BufferNext(f)

NotBackslash(byte) == byte # 92
ProcessValue_Unescape(col, payload, oob) ==
    [ok |-> TRUE, value |-> SelectSeq(payload, NotBackslash)]

\* ProcessValue for a VARCHAR column (text or jsonb)
ProcessValue(col, payload, oob) ==
    IF col = "jsonb"
    THEN [ok |-> ByteAt(payload, 1, oob) = 1,
          value |-> IF payload = <<>> THEN <<>> ELSE Tail(payload)]
    ELSE [ok |-> TRUE, value |-> payload]

SetRow(rows, off, row) ==
    [i \in 1..(IF off + 1 > Len(rows) THEN off + 1 ELSE Len(rows)) |->
        IF i = off + 1 THEN row
        ELSE IF i <= Len(rows) THEN rows[i] ELSE [null |-> FALSE, val |-> <<>>]]

\* The bytes ProcessValue is given for a field of raw_len bytes at p.  A
\* field that runs past the end of the message is a read of what lies behind
\* the buffer: the bytes of the message, then one byte oob standing for it.
FieldBytes(b, p, raw_len, oob) ==
    LET inside == Len(b) - p + 1
    IN  Bytes(b, p, IF raw_len > inside + 1 THEN inside + 1 ELSE raw_len, oob)

\* the tuple count and, unless it is the trailer, the fields of one tuple
ReadTuple(f, col, oob) ==
    IF f.status # "run" THEN f
    ELSE LET p == f.b.buffer_ptr
             tuple_count == ReadInt16(f.b.buffer, p, oob)
             raw_len == ReadInt32(f.b.buffer, p + 2, oob)
             pv == ProcessValue(col, FieldBytes(f.b.buffer, p + 6, raw_len, oob), oob)
         IN  IF tuple_count = 0 - 1
             THEN [f EXCEPT !.b.buffer_ptr = p + 2, !.st.done = TRUE, !.status = "continue"]
             ELSE IF raw_len = 0 - 1
             THEN [f EXCEPT !.out.rows = SetRow(@, f.off, [null |-> TRUE, val |-> <<>>]),
                            !.b = BufferReset(f.b), !.outst = @ - Freed(f.b),
                            !.off = @ + 1, !.status = "continue"]
             ELSE IF raw_len < 0 \/ ~pv.ok
             THEN [f EXCEPT !.b.buffer_ptr = p + 6, !.status = "throw"]
             ELSE [f EXCEPT !.out.rows = SetRow(@, f.off, [null |-> FALSE, val |-> pv.value]),
                            !.b = BufferReset(f.b), !.outst = @ - Freed(f.b),
                            !.off = @ + 1, !.status = "continue"]

ScanIteration(f, col, s, copy_ok, oob) ==
    ReadTuple(EnsureReady(SetCardinality(ExecCopy(f, s, copy_ok))), col, oob)

\* while (true) { ... }: iterations up to a return, a throw, or done with a task to fetch
RECURSIVE ScanLoop(_, _, _, _, _)
ScanLoop(f, col, s, copy_ok, oob) ==
    LET g == ScanIteration([f EXCEPT !.status = "run"], col, s, copy_ok, oob)
    IN  IF g.status = "continue" /\ ~g.st.done THEN ScanLoop(g, col, s, copy_ok, oob) ELSE g

(***************************************************************************)
(* The streams the server may send for one COPY: well-formed ones of up to *)
(* MaxTuples tuples, and malformed ones.                                   *)
(***************************************************************************)
ScanColumns == {"text", "jsonb"}
\* payloads with a backslash, a single quote, a double quote and a byte above 127
TupleMsgs == {Tuple(Field(<<1, 92, 39>>)), Tuple(Field(<<2, 34, 255>>)), Tuple(NullField)}
Header == Signature \o Zeros(8)
WithHeader(h, msgs) == <<h \o Head(msgs)>> \o Tail(msgs)
NoStream == <<>>
GoodStreams ==
    {WithHeader(Header, ts \o <<Trailer>>) :
        ts \in UNION {[1..n -> TupleMsgs] : n \in 0..MaxTuples}}
BadStreams ==
    { WithHeader(Zeros(19), <<Trailer>>),                  \* not the signature
      WithHeader(HeaderLiteral \o Zeros(8), <<Trailer>>),  \* the literal of CheckHeader
      <<Signature>>,                                       \* shorter than the header
      NoStream,                                            \* the COPY sends nothing
      WithHeader(Header, <<Tuple(NullField)>>) }           \* the stream ends without a trailer
Streams == GoodStreams \cup BadStreams
\* the streams of the many-worker specification: an empty range, and a COPY that sends nothing
PlainStreams == {WithHeader(Header, <<Trailer>>), NoStream}

(***************************************************************************)
(* PostgresScan, from its call or from the return of                       *)
(* PostgresParallelStateNext inside it, up to the next point where it      *)
(* waits for the mutex, returns or throws.  When the call ends the         *)
(* buffer's destructor frees the message it holds.                         *)
(***************************************************************************)
EnterFrame(w) ==
    IF pc[w] = "idle"
    THEN [Frame(w) EXCEPT !.off = 0, !.out = EmptyChunk, !.b = NullBuffer]
    ELSE Frame(w)

PostgresScan(w, s, copy_ok, oob) ==
    /\ phase = "running"
    /\ pc[w] \in {"idle", "loop"}
    /\ (lstate[w].exec \/ lstate[w].done) => (s = NoStream /\ copy_ok)
    /\ LET f == IF lstate[w].done THEN [EnterFrame(w) EXCEPT !.status = "continue"]
                ELSE ScanLoop(EnterFrame(w), column, s, copy_ok, oob)
       IN  /\ lstate' = [lstate EXCEPT ![w] = f.st]
           /\ stream' = [stream EXCEPT ![w] = f.strm]
           /\ pgconn' = [pgconn EXCEPT ![w] = f.conn]
           /\ header_seen' = [header_seen EXCEPT ![w] = f.hdr]
           /\ output_offset' = [output_offset EXCEPT ![w] = f.off]
           /\ output' = [output EXCEPT ![w] = f.out]
           /\ sent' = [sent EXCEPT ![w] = f.sent]
           /\ emitted' = IF f.status = "return" THEN [emitted EXCEPT ![w] = @ \o Chunk(f.out)]
                         ELSE emitted
           /\ IF f.status = "continue"
              THEN /\ pc' = [pc EXCEPT ![w] = "lock"]
                   /\ buf' = [buf EXCEPT ![w] = f.b]
                   /\ outstanding' = [outstanding EXCEPT ![w] = f.outst]
              ELSE /\ pc' = [pc EXCEPT ![w] = IF f.status = "return" THEN "idle" ELSE "error"]
                   /\ buf' = [buf EXCEPT ![w] = BufferReset(f.b)]
                   /\ outstanding' = [outstanding EXCEPT ![w] = f.outst - Freed(f.b)]
    /\ ret' = [ret EXCEPT ![w] = "scan"]
    /\ UNCHANGED <<phase, pages_approx, pages_per_task, in_recovery, snapshot, filters_ok,
                   exported, page_idx, max_threads, lock, handed, column>>
    /\ UNCHANGED codec_vars

(***************************************************************************)
(* ~PostgresLocalState: PQfinish(conn) if conn is set.                     *)
(***************************************************************************)
LocalStateDestroy(w) ==
    /\ pc[w] \in {"idle", "error"}
    /\ pc' = [pc EXCEPT ![w] = "destroyed"]
    /\ IF lstate[w].conn
       THEN /\ pgconn' = [pgconn EXCEPT ![w].finished = @ + 1]
            /\ lstate' = [lstate EXCEPT ![w].conn = FALSE]
       ELSE UNCHANGED <<pgconn, lstate>>
    /\ UNCHANGED <<phase, pages_approx, pages_per_task, in_recovery, snapshot, filters_ok,
                   exported, page_idx, max_threads, lock, ret, handed, column, stream, buf,
                   output_offset, output, outstanding, header_seen>>
    /\ UNCHANGED codec_vars
    /\ UNCHANGED ghost_vars

(***************************************************************************)
(* The end of the scan: the bind data is destroyed, and with it Bind's     *)
(* connection is finished.                                                 *)
(***************************************************************************)
BindDataDestroy ==
    /\ phase = "running"
    /\ \A w \in Workers : pc[w] \in {"new", "destroyed"}
    /\ phase' = "destroyed"
    /\ pgconn' = [pgconn EXCEPT ![BindOwner].finished = @ + 1]
    /\ UNCHANGED <<pages_approx, pages_per_task, in_recovery, snapshot, filters_ok,
                   exported, page_idx, max_threads, lock, pc, ret, lstate, handed, column,
                   stream, buf, output_offset, output, outstanding, header_seen>>
    /\ UNCHANGED codec_vars
    /\ UNCHANGED ghost_vars

Next ==
    \/ \E ap \in 1..MaxPages, ppt \in 1..MaxPagesPerTask, fok \in BOOLEAN :
          PostgresBind(ap, ppt, FALSE, "00000003-1", fok, "text")
    \/ PostgresInitGlobalState
    \/ \E w \in Workers : PostgresInitLocalState(w, "ok")
    \/ \E w \in Workers : AcquireLock(w)
    \/ \E w \in Workers : PostgresParallelStateNext(w)
    \/ \E w \in Workers, s \in PlainStreams : PostgresScan(w, s, TRUE, 0)
    \/ \E w \in Workers : LocalStateDestroy(w)
    \/ BindDataDestroy

Spec == Init /\ [][Next]_vars

(***************************************************************************)
(* Two workers with every outcome of Bind's recovery query, of the         *)
(* statements of PostgresScanConnect and of the COPY statement.            *)
(***************************************************************************)
TwoWorkers == {1, 2}

NextConn ==
    \/ \E ap \in 1..MaxPages, ppt \in 1..MaxPagesPerTask, rec \in BOOLEAN,
          snap \in SnapshotIds, fok \in BOOLEAN :
          PostgresBind(ap, ppt, rec, snap, fok, "text")
    \/ PostgresInitGlobalState
    \/ \E w \in TwoWorkers, outcome \in ConnectOutcomes : PostgresInitLocalState(w, outcome)
    \/ \E w \in TwoWorkers : AcquireLock(w)
    \/ \E w \in TwoWorkers : PostgresParallelStateNext(w)
    \/ \E w \in TwoWorkers, s \in PlainStreams, copy_ok \in BOOLEAN :
          PostgresScan(w, s, copy_ok, 0)
    \/ \E w \in TwoWorkers : LocalStateDestroy(w)
    \/ BindDataDestroy

SpecConn == Init /\ [][NextConn]_vars

(***************************************************************************)
(* The scan of one worker over every stream, column by column.             *)
(***************************************************************************)
OneWorker == {1}

NextScan ==
    \/ \E ap \in 1..MaxPages, fok \in BOOLEAN, col \in ScanColumns :
          PostgresBind(ap, MaxPagesPerTask, FALSE, "00000003-1", fok, col)
    \/ PostgresInitGlobalState
    \/ \E w \in OneWorker : PostgresInitLocalState(w, "ok")
    \/ \E w \in OneWorker : AcquireLock(w)
    \/ \E w \in OneWorker : PostgresParallelStateNext(w)
    \/ \E w \in OneWorker, s \in Streams, copy_ok \in BOOLEAN, oob \in {0, 255} :
          PostgresScan(w, s, copy_ok, oob)
    \/ \E w \in OneWorker : LocalStateDestroy(w)
    \/ BindDataDestroy

SpecScan == Init /\ [][NextScan]_vars

(***************************************************************************)
(* The scan of one worker over streams whose header has an extension area  *)
(* of L bytes, L >= 0.                                                     *)
(***************************************************************************)
MaxExtension == 2
ExtendedHeader(ext) == Signature \o Zeros(4) \o <<0, 0, 0, Len(ext)>> \o ext
ExtendedStreams ==
    {WithHeader(ExtendedHeader(Zeros(n)), ts \o <<Trailer>>) :
        n \in 0..MaxExtension, ts \in UNION {[1..k -> TupleMsgs] : k \in 0..1}}

NextHeader ==
    \/ \E ap \in 1..MaxPages, col \in ScanColumns :
          PostgresBind(ap, MaxPagesPerTask, FALSE, "00000003-1", TRUE, col)
    \/ PostgresInitGlobalState
    \/ \E w \in OneWorker : PostgresInitLocalState(w, "ok")
    \/ \E w \in OneWorker : AcquireLock(w)
    \/ \E w \in OneWorker : PostgresParallelStateNext(w)
    \/ \E w \in OneWorker, s \in ExtendedStreams \cup {NoStream}, oob \in {0, 255} :
          PostgresScan(w, s, TRUE, oob)
    \/ \E w \in OneWorker : LocalStateDestroy(w)
    \/ BindDataDestroy

SpecHeader == Init /\ [][NextHeader]_vars

(***************************************************************************)
(* Two workers scanning to the end: every filter is supported, every COPY  *)
(* is accepted and its stream is finite and ends with the trailer, and the *)
(* engine goes on calling PostgresScan; it destroys a local state only     *)
(* after a call of it returned with nothing left.  Scheduling is fair:     *)
(* a worker that can step does, and a worker that waits for the mutex gets *)
(* it.                                                                     *)
(***************************************************************************)
LiveTuple(i) == IF i % 2 = 1 THEN Tuple(Field(<<1, 92, 39>>)) ELSE Tuple(NullField)
\* a task whose page range holds no tuple, and a task that holds one
LiveLengths == {0, 1}
LiveStreams ==
    {WithHeader(Header, [i \in 1..n |-> LiveTuple(i)] \o <<Trailer>>) : n \in LiveLengths}

\* a call that issues a COPY is sent one of the streams; any other call issues none
ScanCall(w) ==
    \E s \in (IF lstate[w].exec \/ lstate[w].done THEN {NoStream} ELSE LiveStreams) :
        PostgresScan(w, s, TRUE, 0)

Finished(w) == pc[w] = "idle" /\ lstate[w].done

NextLive ==
    \/ \E ap \in 1..MaxPages, ppt \in 1..MaxPagesPerTask :
          PostgresBind(ap, ppt, FALSE, "00000003-1", TRUE, "text")
    \/ PostgresInitGlobalState
    \/ \E w \in TwoWorkers : PostgresInitLocalState(w, "ok")
    \/ \E w \in TwoWorkers : AcquireLock(w)
    \/ \E w \in TwoWorkers : PostgresParallelStateNext(w)
    \/ \E w \in TwoWorkers : ScanCall(w)
    \/ \E w \in TwoWorkers : Finished(w) /\ LocalStateDestroy(w)
    \/ BindDataDestroy

\* PostgresScan can be called, or go on after PostgresParallelStateNext returned
CanScan(w) == phase = "running" /\ pc[w] \in {"idle", "loop"}

\* WF_vars(ScanCall(w)), with ENABLED <<ScanCall(w)>>_vars written out as CanScan(w)
FairScan(w) == []<>(~CanScan(w)) \/ []<><<ScanCall(w)>>_vars

FairScheduling ==
    \A w \in TwoWorkers :
        /\ SF_vars(AcquireLock(w))
        /\ WF_vars(PostgresParallelStateNext(w))
        /\ FairScan(w)

SpecLive == Init /\ [][NextLive]_vars /\ FairScheduling

(***************************************************************************)
(* Claims about the mutex of the page cursor.  A worker at "next" is       *)
(* inside PostgresParallelStateNext, past the lock_guard.                  *)
(***************************************************************************)
InCursor == {w \in Workers : pc[w] = "next"}

C17_OneHolder ==
    /\ Cardinality(InCursor) <= 1
    /\ \A w \in InCursor : lock = w

C17_AdvanceUnderLock ==
    /\ PageLeq(page_idx, page_idx')
    /\ page_idx' # page_idx => (lock \in InCursor /\ lock' = NoWorker)

\* C17: page_idx is read and advanced only by the worker that holds the
\* mutex, at most one worker holds it, and page_idx never decreases.
C17_CursorUnderMutex == [](C17_OneHolder) /\ [][C17_AdvanceUnderLock]_vars

C17_Witness ==
    \E w1, w2 \in Workers :
        /\ pc[w1] = "next" /\ pc[w2] = "lock"
        /\ PageLess(U(0), page_idx)

(***************************************************************************)
(* Claims about the rows a worker returns.  sent holds what the server put *)
(* into the worker's streams, emitted what its scan calls returned.        *)
(***************************************************************************)
\* C16: a non-NULL field of a text column is stored with exactly the bytes of
\* its payload: backslashes and quotes are not processed.
C16_Verbatim ==
    \A w \in Workers :
        column = "text" =>
            /\ Len(emitted[w]) <= Len(sent[w])
            /\ \A i \in DOMAIN emitted[w] : emitted[w][i] = sent[w][i]

C16_Witness ==
    \E w \in Workers :
        /\ column = "text"
        /\ \E i \in DOMAIN emitted[w] : emitted[w][i] = [null |-> FALSE, val |-> <<1, 92, 39>>]
        /\ \E i \in DOMAIN emitted[w] : emitted[w][i] = [null |-> FALSE, val |-> <<2, 34, 255>>]

\* the COPY statements issued, and the tasks taken whose COPY is still to come
RECURSIVE SumCopies(_)
SumCopies(ws) ==
    IF ws = {} THEN 0
    ELSE LET w == CHOOSE x \in ws : TRUE IN pgconn[w].copies + SumCopies(ws \ {w})
CopyPending == {w \in Workers : lstate[w].sql # NoSql /\ ~lstate[w].exec}

C18_OnePerTask == SumCopies(Workers) + Cardinality(CopyPending) = Len(handed)

C18_CopyAfterTrailer ==
    \A w \in Workers :
        pgconn'[w].copies # pgconn[w].copies =>
            /\ pgconn'[w].copies = pgconn[w].copies + 1
            /\ ~lstate[w].exec /\ lstate'[w].exec
            /\ stream[w] = <<>>

\* C18: a worker issues the COPY of a task only when its previous stream has
\* been read to the trailer, and one COPY for each task it was handed: a call
\* that returned a full chunk does not issue the COPY again.
C18_OneStream == [](C18_OnePerTask) /\ [][C18_CopyAfterTrailer]_vars

C18_Witness ==
    \E w \in Workers :
        /\ pgconn[w].copies = 2 /\ Len(handed) = 2
        /\ Len(sent[w]) = 4 /\ Len(emitted[w]) = 4
        /\ lstate[w].done /\ pc[w] = "idle"

\* C19: when the header check has passed, the tuple cursor stands behind the
\* whole header, at offset 19 + L of the first message, L being the header
\* extension length.
C19_ExtensionSkipped ==
    \A w \in Workers :
        (header_seen[w].passed /\ Len(header_seen[w].msg) >= 19) =>
            header_seen[w].cursor = 19 + ReadInt32(header_seen[w].msg, 16, 0)

RowMatches(col, row, field) ==
    /\ row.null = field.null
    /\ ~row.null => row.val = (IF col = "jsonb" THEN Tail(field.val) ELSE field.val)

C20_Chunks ==
    \A w \in Workers :
        /\ output[w].cardinality <= STANDARD_VECTOR_SIZE
        /\ Len(emitted[w]) <= Len(sent[w])
        /\ \A i \in DOMAIN emitted[w] : RowMatches(column, emitted[w][i], sent[w][i])
        /\ pc[w] = "idle" =>
               /\ output[w].cardinality = output_offset[w]
               /\ Len(emitted[w]) + Len(SentFields(stream[w])) = Len(sent[w])

C20_ChunkReturned ==
    \A w \in Workers :
        emitted'[w] # emitted[w] =>
            /\ pc'[w] = "idle"
            /\ emitted'[w] = emitted[w] \o Chunk(output'[w])

\* C20: a returned chunk has at most STANDARD_VECTOR_SIZE rows, as many as the
\* call took from the worker's streams, and the rows of the returned chunks
\* are the tuples the server sent, each once and in order: between calls
\* every tuple sent is either in a returned chunk or still to be received.
C20_NoTupleLost == [](C20_Chunks) /\ [][C20_ChunkReturned]_vars

\* a chunk that is full in the middle of the second task and holds the last
\* tuple of the first task and the first tuple of the second
C20_Witness ==
    \E w \in Workers :
        /\ pgconn[w].copies = 2 /\ pc[w] = "idle"
        /\ Len(sent[w]) = 3 /\ Len(emitted[w]) = 2
        /\ output[w].cardinality = STANDARD_VECTOR_SIZE
        /\ Len(SentFields(stream[w])) = 1

(***************************************************************************)
(* The end of the scan.  A worker is Done when a call of it has returned   *)
(* with done set and the cursor at or past pages_approx; a Done worker is  *)
(* calling when its next PostgresScan is on its way through                *)
(* PostgresParallelStateNext.                                              *)
(***************************************************************************)
NoTaskLeft == PageLeq(pages_approx, page_idx)
Done(w) == pc[w] = "idle" /\ lstate[w].done /\ NoTaskLeft
DoneCalling(w) ==
    /\ pc[w] \in {"lock", "next"} /\ ret[w] = "scan"
    /\ lstate[w].done /\ NoTaskLeft
    /\ output_offset[w] = 0 /\ output[w] = EmptyChunk
Created(w) == pc[w] \notin {"new", "destroyed"}
CeilDiv(a, n) == PageDiv(PageAdd(a, n - 1), n)

C21_EveryWorkerDone == \A w \in TwoWorkers : [](Created(w) => <>Done(w))

C21_TaskCount ==
    \A w \in Workers : Done(w) => Len(handed) = CeilDiv(pages_approx, pages_per_task)

C21_DoneStaysDone ==
    \A w \in Workers :
        (Done(w) \/ DoneCalling(w)) =>
            /\ handed' = handed
            /\ page_idx' = page_idx
            /\ pgconn'[w].copies = pgconn[w].copies
            /\ sent'[w] = sent[w]
            /\ emitted'[w] = emitted[w]
            /\ DoneCalling(w) => output'[w] = EmptyChunk
            /\ lstate'[w].done
            /\ pc'[w] = "destroyed" \/ Done(w)' \/ DoneCalling(w)'

\* C21: with every COPY stream finite and ended by the trailer, and fair
\* scheduling, every worker that was created reaches Done, again after every
\* later call; at Done exactly ceil(pages_approx / pages_per_task) tasks have
\* been handed out; and a call of a Done worker returns an empty chunk, hands
\* out no task and issues no COPY.
C21_ScanEnds == C21_EveryWorkerDone /\ [](C21_TaskCount) /\ [][C21_DoneStaysDone]_vars

\* one worker was handed every task and returned their tuples; the other was
\* Done from its construction on, and a scan call of it has returned
C21_Witness ==
    \E w, v \in TwoWorkers :
        /\ Done(w) /\ pgconn[w].copies = 0 /\ ret[w] = "scan"
        /\ Done(v) /\ pgconn[v].copies = Len(handed) /\ Len(handed) = 2
        /\ emitted[v] # <<>>

(***************************************************************************)
(* The type mapper.  A LogicalType is its base type id, the width and      *)
(* scale of a DECIMAL, and the number of LIST levels around it.            *)
(***************************************************************************)
MaxColumns == 2

Simple(id) == [id |-> id, width |-> 0, scale |-> 0, list |-> 0]
DECIMAL(width, scale) == [id |-> "DECIMAL", width |-> width, scale |-> scale, list |-> 0]
LIST(child) == [child EXCEPT !.list = @ + 1]
INVALID == Simple("INVALID")
VARCHAR == Simple("VARCHAR")

\* the type names of the model's catalog that start with an underscore
UnderscoreNames == {"_int4", "_text", "_numeric", "_xml", "_mood"}
StartsWithUnderscore(typname) == typname \in UnderscoreNames

\* ((atttypmod - 4) >> 16) & 0xffff and (((atttypmod - 4) & 0x7ff) ^ 1024) - 1024
TypmodWidth(atttypmod) == ((atttypmod - 4) \div 65536) % 65536
TypmodScale(atttypmod) ==
    LET low == (atttypmod - 4) % 2048
    IN  (IF low >= 1024 THEN low - 1024 ELSE low + 1024) - 1024

BaseType(typname, atttypmod) ==
    CASE typname = "bool" -> Simple("BOOLEAN")
      [] typname = "int2" -> Simple("SMALLINT")
      [] typname = "int4" -> Simple("INTEGER")
      [] typname = "int8" -> Simple("BIGINT")
      [] typname = "oid" -> Simple("UINTEGER")
      [] typname = "float4" -> Simple("FLOAT")
      [] typname = "float8" -> Simple("DOUBLE")
      [] typname = "numeric" ->
            IF atttypmod = 0 - 1 THEN Simple("DOUBLE")
            ELSE DECIMAL(TypmodWidth(atttypmod), TypmodScale(atttypmod))
      [] typname \in {"char", "bpchar", "varchar", "text", "jsonb", "json"} -> VARCHAR
      [] typname = "date" -> Simple("DATE")
      [] typname = "bytea" -> Simple("BLOB")
      [] typname = "time" -> Simple("TIME")
      [] typname = "timetz" -> Simple("TIME_TZ")
      [] typname = "timestamp" -> Simple("TIMESTAMP")
      [] typname = "timestamptz" -> Simple("TIMESTAMP_TZ")
      [] typname = "interval" -> Simple("INTERVAL")
      [] typname = "uuid" -> Simple("UUID")
      [] OTHER -> INVALID

\* DuckDBType2 on a type that is not an array: an enum, or the mapping table
ScalarType(type_info, atttypmod) ==
    IF type_info.typtype = "e" THEN Simple("ENUM") ELSE BaseType(type_info.typname, atttypmod)

DuckDBType2(type_info, atttypmod, ele_info) ==
    IF StartsWithUnderscore(type_info.typname)
    THEN LIST(ScalarType(ele_info, atttypmod))
    ELSE ScalarType(type_info, atttypmod)

DuckDBType(info) == DuckDBType2(info.type_info, info.atttypmod, info.elem_info)

\* auto needs_cast = duckdb_type == LogicalType::INVALID
NeedsCast(duckdb_type) == duckdb_type = INVALID

BoundType_Keep(duckdb_type) == duckdb_type

\* the type pushed to bind_data.types
BoundType(duckdb_type) == IF ~NeedsCast(duckdb_type) THEN duckdb_type ELSE VARCHAR

(***************************************************************************)
(* The rows PrepareBind's column query may return: base types, an enum, a  *)
(* type outside the mapping table, and arrays of them.  The element of an  *)
(* array type is never itself an array.                                    *)
(***************************************************************************)
TypeInfo(typname, typtype) == [typname |-> typname, typtype |-> typtype]
NoElem == TypeInfo("", "")
ColumnInfo(type_info, atttypmod, elem_info) ==
    [type_info |-> type_info, atttypmod |-> atttypmod, elem_info |-> elem_info]
Numeric_10_2 == 10 * 65536 + 2 + 4
BaseTypeNames == {"bool", "int4", "char", "bpchar", "varchar", "text", "json", "jsonb", "xml"}
ColumnInfos ==
    {ColumnInfo(TypeInfo(n, "b"), 0 - 1, NoElem) : n \in BaseTypeNames}
      \cup {ColumnInfo(TypeInfo("numeric", "b"), m, NoElem) : m \in {0 - 1, Numeric_10_2}}
      \cup {ColumnInfo(TypeInfo("mood", "e"), 0 - 1, NoElem)}
      \cup {ColumnInfo(TypeInfo("_int4", "b"), 0 - 1, TypeInfo("int4", "b")),
            ColumnInfo(TypeInfo("_text", "b"), 0 - 1, TypeInfo("text", "b")),
            ColumnInfo(TypeInfo("_numeric", "b"), Numeric_10_2, TypeInfo("numeric", "b")),
            ColumnInfo(TypeInfo("_xml", "b"), 0 - 1, TypeInfo("xml", "b")),
            ColumnInfo(TypeInfo("_mood", "b"), 0 - 1, TypeInfo("mood", "e"))}

\* one turn of the loop of PrepareBind over the rows of the column query
PrepareBindColumn ==
    /\ Len(bind_cols) < Len(catalog)
    /\ LET info == catalog[Len(bind_cols) + 1]
           duckdb_type == DuckDBType(info)
       IN  bind_cols' = Append(bind_cols,
               [info |-> info, needs_cast |-> NeedsCast(duckdb_type),
                type |-> BoundType(duckdb_type)])
    /\ UNCHANGED <<catalog, numeric>>
    /\ UNCHANGED more_vars
    /\ UNCHANGED scan_vars

InitBind ==
    /\ ScanInit
    /\ catalog \in UNION {[1..n -> ColumnInfos] : n \in 1..MaxColumns}
    /\ bind_cols = <<>>
    /\ numeric = NoNumeric
    /\ MoreInit

SpecBind == InitBind /\ [][PrepareBindColumn]_vars

(***************************************************************************)
(* Claims about the bound column types.                                    *)
(***************************************************************************)
NativeTextNames == {"char", "bpchar", "varchar", "text", "json", "jsonb"}
MappedNames ==
    {"bool", "int2", "int4", "int8", "oid", "float4", "float8", "numeric", "date", "bytea",
     "time", "timetz", "timestamp", "timestamptz", "interval", "uuid"} \cup NativeTextNames
InMappingTable(type_info) == type_info.typtype = "e" \/ type_info.typname \in MappedNames
\* a remote type outside the mapping table, or an array of such a type
Unmapped(info) ==
    IF info.elem_info # NoElem THEN ~InMappingTable(info.elem_info)
    ELSE ~InMappingTable(info.type_info)

\* C6 as stated: target_type is TEXT if and only if needs_text_cast.
C6_TextIffCast ==
    \A i \in DOMAIN bind_cols : (bind_cols[i].type = VARCHAR) <=> bind_cols[i].needs_cast

\* C6, amended: needs_text_cast implies target_type TEXT, and a column with
\* target_type TEXT and no cast is one whose remote type is char, bpchar,
\* varchar, text, json or jsonb.
C6_CastImpliesText ==
    \A i \in DOMAIN bind_cols :
        /\ bind_cols[i].needs_cast => bind_cols[i].type = VARCHAR
        /\ (bind_cols[i].type = VARCHAR /\ ~bind_cols[i].needs_cast) =>
               bind_cols[i].info.type_info.typname \in NativeTextNames

C6_Witness ==
    \E i, j \in DOMAIN bind_cols :
        /\ bind_cols[i].needs_cast /\ bind_cols[i].type = VARCHAR
        /\ ~bind_cols[j].needs_cast /\ bind_cols[j].info.type_info.typname = "text"

\* C7: a column whose remote type, or whose array element type, is outside
\* the mapping table is bound with needs_text_cast and target_type TEXT, and no
\* bound type contains INVALID.
C7_UnmappedReadAsText ==
    \A i \in DOMAIN bind_cols :
        /\ bind_cols[i].type.id # "INVALID"
        /\ Unmapped(bind_cols[i].info) =>
               (bind_cols[i].needs_cast /\ bind_cols[i].type = VARCHAR)

(***************************************************************************)
(* The numeric codec.  A field payload is a sequence of bytes; a read past *)
(* its end gives the byte oob, whatever lies behind the field in memory.   *)
(***************************************************************************)
NBASE == 10000
DEC_DIGITS == 4
NUMERIC_POS == 0
NUMERIC_NEG == 16384
NUMERIC_NAN == 49152
NUMERIC_PINF == 53248
NUMERIC_NINF == 61440

POWERS_OF_TEN(n) == 10 ^ n

\* PostgresConversion::LoadInteger<uint16_t> and <int16_t>
LoadUInt16(b, p, oob) == ByteAt(b, p, oob) * 256 + ByteAt(b, p + 1, oob)
LoadInt16(b, p, oob) == ReadInt16(b, p, oob)

ReadDecimalConfig(b, oob) ==
    LET sign == LoadUInt16(b, 5, oob)
    IN  [ndigits |-> LoadUInt16(b, 1, oob),
         weight |-> LoadInt16(b, 3, oob),
         throws |-> ~(sign \in {NUMERIC_POS, NUMERIC_NAN, NUMERIC_PINF, NUMERIC_NINF,
                                NUMERIC_NEG}),
         is_negative |-> sign = NUMERIC_NEG,
         scale |-> LoadUInt16(b, 7, oob),
         value_ptr |-> 9]

\* for (auto i = 1; i <= config.weight; i++): r is [part, value_ptr, nread]
RECURSIVE IntegralLoop(_, _, _, _, _)
IntegralLoop(config, b, oob, i, r) ==
    IF i > config.weight THEN r
    ELSE IntegralLoop(config, b, oob, i + 1,
            IF i < config.ndigits
            THEN [part |-> r.part * NBASE + LoadUInt16(b, r.value_ptr, oob),
                  value_ptr |-> r.value_ptr + 2, nread |-> r.nread + 1]
            ELSE [r EXCEPT !.part = @ * NBASE])

\* if (config.weight >= 0) { ... }
IntegralPart(config, b, oob) ==
    IF config.weight >= 0
    THEN LET r == IntegralLoop(config, b, oob, 1,
                     [part |-> LoadUInt16(b, config.value_ptr, oob),
                      value_ptr |-> config.value_ptr + 2, nread |-> 1])
         IN  [r EXCEPT !.part = @ * POWERS_OF_TEN(config.scale)]
    ELSE [part |-> 0, value_ptr |-> config.value_ptr, nread |-> 0]

\* for (auto i = config.weight + 2; i < config.ndigits; i++)
RECURSIVE FractionalLoop(_, _, _, _, _)
FractionalLoop(config, b, oob, i, r) ==
    IF ~(i < config.ndigits) THEN r
    ELSE FractionalLoop(config, b, oob, i + 1,
            IF i < config.ndigits
            THEN [part |-> r.part * NBASE + LoadUInt16(b, r.value_ptr, oob),
                  value_ptr |-> r.value_ptr + 2, nread |-> r.nread + 1]
            ELSE [r EXCEPT !.part = @ * NBASE])

\* if (config.ndigits > config.weight + 1) { ... }, continuing after ip
FractionalPart(config, b, oob, ip) ==
    IF config.ndigits > config.weight + 1
    THEN LET r == FractionalLoop(config, b, oob, config.weight + 2,
                     [part |-> LoadUInt16(b, ip.value_ptr, oob),
                      value_ptr |-> ip.value_ptr + 2, nread |-> ip.nread + 1])
             fractional_power == (config.ndigits - config.weight - 1) * DEC_DIGITS
             fractional_power_correction == fractional_power - config.scale
         IN  [r EXCEPT !.part =
                 IF fractional_power_correction >= 0
                 THEN @ \div POWERS_OF_TEN(fractional_power_correction)
                 ELSE @ * POWERS_OF_TEN(0 - fractional_power_correction)]
    ELSE [part |-> 0, value_ptr |-> ip.value_ptr, nread |-> ip.nread]

\* ReadDecimal<int64_t>; debug is a build in which D_ASSERT is compiled in
ReadDecimal(config, b, oob, debug) ==
    IF config.ndigits = 0 THEN [status |-> "ok", value |-> 0, nread |-> 0]
    ELSE IF debug /\ config.weight >= 0 /\ ~(config.weight <= config.ndigits)
    THEN [status |-> "assert", value |-> 0, nread |-> 0]
    ELSE LET ip == IntegralPart(config, b, oob)
             fp == FractionalPart(config, b, oob, ip)
             base_res == ip.part + fp.part
         IN  [status |-> "ok",
              value |-> IF config.is_negative THEN 0 - base_res ELSE base_res,
              nread |-> fp.nread]

\* ProcessValue on a numeric column: case DECIMAL with an INT64 physical
\* type, and case DOUBLE with typname "numeric".  written says whether the
\* output vector got a value, value / divisor is that value.
ProcessNumeric(type_id, b, oob, debug) ==
    IF type_id = "DECIMAL" /\ Len(b) < 2 * 4
    THEN [status |-> "throw", written |-> FALSE, value |-> 0, divisor |-> 1, nread |-> 0]
    ELSE LET config == ReadDecimalConfig(b, oob)
         IN  IF config.throws
             THEN [status |-> "throw", written |-> FALSE, value |-> 0, divisor |-> 1,
                   nread |-> 0]
             ELSE LET r == ReadDecimal(config, b, oob, debug)
                  IN  [status |-> r.status, written |-> r.status = "ok", value |-> r.value,
                       divisor |-> IF type_id = "DOUBLE" THEN POWERS_OF_TEN(config.scale)
                                   ELSE 1,
                       nread |-> r.nread]

(***************************************************************************)
(* The wire form PostgreSQL sends for a numeric: ndigits, weight, sign,    *)
(* dscale, then the base-10000 digits, most significant first, without     *)
(* leading and trailing zero groups.  unscaled is d * 10^scale.            *)
(***************************************************************************)
Word(n) == <<(n % 65536) \div 256, n % 256>>
RECURSIVE Words(_)
Words(ws) == IF ws = <<>> THEN <<>> ELSE Word(Head(ws)) \o Words(Tail(ws))

Groups(n, k) == [i \in 1..k |-> (n \div (NBASE ^ (k - i))) % NBASE]
GroupCount(n) == IF n = 0 THEN 0 ELSE IF n < NBASE THEN 1 ELSE IF n < NBASE * NBASE THEN 2 ELSE 3
LeadingZeros(ds) == Cardinality({k \in 1..Len(ds) : \A i \in 1..k : ds[i] = 0})
TrailingZeros(ds) == Cardinality({k \in 1..Len(ds) : \A i \in (Len(ds) - k + 1)..Len(ds) : ds[i] = 0})

EncodeDigits(unscaled, scale) ==
    LET ip == unscaled \div (10 ^ scale)
        nf == (scale + DEC_DIGITS - 1) \div DEC_DIGITS
        fpad == (unscaled % (10 ^ scale)) * (10 ^ (DEC_DIGITS * nf - scale))
        all == Groups(ip, GroupCount(ip)) \o Groups(fpad, nf)
        lead == LeadingZeros(all)
    IN  IF unscaled = 0 THEN [digits |-> <<>>, weight |-> 0]
        ELSE [digits |-> SubSeq(all, lead + 1, Len(all) - TrailingZeros(all)),
              weight |-> GroupCount(ip) - 1 - lead]

EncodePg(unscaled, scale, negative) ==
    LET e == EncodeDigits(unscaled, scale)
    IN  Words(<<Len(e.digits), e.weight,
                IF negative THEN NUMERIC_NEG ELSE NUMERIC_POS, scale>> \o e.digits)

WireNDigits(wire) == LoadUInt16(wire, 1, 0)
WireWeight(wire) == LoadInt16(wire, 3, 0)
WireSign(wire) == LoadUInt16(wire, 5, 0)

Scales == {0, 2, 4, 8}
Unscaled ==
    {0, 1, 50, 123, 1234, 5000, 9999, 10000, 12345, 20000, 99999, 1000000, 12345678,
     100000000, 123456789, 1234567800}
NUMERIC_SHORT == 32768
SpecialSigns == {NUMERIC_NAN, NUMERIC_PINF, NUMERIC_NINF, NUMERIC_SHORT}
NumericTypes == {"DECIMAL", "DOUBLE"}

Numbers ==
    {[wire |-> EncodePg(x[1], x[2], x[3]), unscaled |-> IF x[3] THEN 0 - x[1] ELSE x[1]] :
        x \in {y \in Unscaled \X Scales \X BOOLEAN : y[3] => y[1] > 0}}
Specials == {[wire |-> Words(<<0, 0, sign, 0>>), unscaled |-> 0] : sign \in SpecialSigns}
Truncated == {[wire |-> Words(<<0, 0>>), unscaled |-> 0]}

InitDecimal ==
    /\ ScanInit
    /\ catalog = <<>>
    /\ bind_cols = <<>>
    /\ MoreInit
    /\ \E type_id \in NumericTypes, n \in Numbers \cup Specials \cup Truncated :
           numeric = [NoNumeric EXCEPT !.type = type_id, !.wire = n.wire,
                                       !.unscaled = n.unscaled]

\* ProcessValue called by ReadTuple on the field of a numeric column
DecodeNumeric(oob, debug) ==
    /\ numeric.status = "none"
    /\ LET r == ProcessNumeric(numeric.type, numeric.wire, oob, debug)
       IN  numeric' = [numeric EXCEPT !.status = r.status, !.written = r.written,
                                      !.value = r.value, !.divisor = r.divisor,
                                      !.nread = r.nread]
    /\ UNCHANGED <<catalog, bind_cols>>
    /\ UNCHANGED more_vars
    /\ UNCHANGED scan_vars

NextDecimal == \E oob \in {0, 255}, debug \in BOOLEAN : DecodeNumeric(oob, debug)

SpecDecimal == InitDecimal /\ [][NextDecimal]_vars

(***************************************************************************)
(* Claims about the numeric codec.                                         *)
(***************************************************************************)
IsNumber(wire) == Len(wire) >= 8 /\ WireSign(wire) \in {NUMERIC_POS, NUMERIC_NEG}

\* C8: decoding the wire form of a decimal d of a DECIMAL(width, scale)
\* column gives d * 10^scale with its sign and reads exactly ndigits digit
\* words, for every weight, weight < -1 and weight >= ndigits included.
C8_DecimalRoundTrip ==
    (numeric.status # "none" /\ numeric.type = "DECIMAL" /\ IsNumber(numeric.wire)) =>
        /\ numeric.status = "ok" /\ numeric.written
        /\ numeric.value = numeric.unscaled
        /\ numeric.nread = WireNDigits(numeric.wire)

\* C9: a numeric with sign word NAN, PINF or NINF, or any sign word other
\* than POS and NEG, fails and writes nothing; only POS and NEG give a number.
C9_SpecialsFail ==
    (numeric.status # "none" /\ Len(numeric.wire) >= 8) =>
        IF WireSign(numeric.wire) \in {NUMERIC_POS, NUMERIC_NEG}
        THEN TRUE
        ELSE numeric.status = "throw" /\ ~numeric.written

(***************************************************************************)
(* The array codec: ProcessValue on a LIST column whose element type is    *)
(* int4.  list_vec holds the list entries of the rows decoded so far, the  *)
(* child vector and its size.  The 32-bit words of the envelopes of the    *)
(* model are below 2^31, so the unsigned and the signed load agree.        *)
(***************************************************************************)
MaxRows == 2
MaxElems == 2
typelem == 23

LoadUInt32(b, p, oob) == ReadInt32(b, p, oob)
LoadInt32(b, p, oob) == ReadInt32(b, p, oob)

SetChild(child, pos, e) ==
    [i \in 1..(IF pos + 1 > Len(child) THEN pos + 1 ELSE Len(child)) |->
        IF i = pos + 1 THEN e
        ELSE IF i <= Len(child) THEN child[i] ELSE [valid |-> TRUE, val |-> 0]]

\* case LogicalTypeId::INTEGER of ProcessValue
ProcessInteger(b, p, value_len, oob, debug) ==
    [status |-> IF debug /\ value_len # 4 THEN "assert" ELSE "ok",
     val |-> LoadInt32(b, p, oob)]

\* for (idx_t child_idx = 0; child_idx < array_length; child_idx++)
RECURSIVE ElementLoop(_, _, _, _, _, _, _)
ElementLoop(b, oob, debug, child_offset, array_length, child_idx, r) ==
    IF r.status # "ok" \/ ~(child_idx < array_length) THEN r
    ELSE LET ele_len == LoadInt32(b, r.value_ptr, oob)
             e == ProcessInteger(b, r.value_ptr + 4, ele_len, oob, debug)
         IN  ElementLoop(b, oob, debug, child_offset, array_length, child_idx + 1,
                 IF ele_len = 0 - 1
                 THEN [r EXCEPT !.value_ptr = @ + 4,
                                !.child = SetChild(@, child_offset + child_idx,
                                                   [valid |-> FALSE, val |-> 0])]
                 ELSE IF e.status # "ok" THEN [r EXCEPT !.status = e.status]
                 ELSE [r EXCEPT !.value_ptr = @ + 4 + ele_len,
                                !.child = SetChild(@, child_offset + child_idx,
                                                   [valid |-> TRUE, val |-> e.val])])

ListEntry(offset, length) == [offset |-> offset, length |-> length]

GetListSize_Zero(vec) == 0

\* ListVector::GetListSize(out_vec)
GetListSize(vec) == vec.size

\* case LogicalTypeId::LIST of ProcessValue, writing the entry of the next row
ProcessList(vec, b, oob, debug) ==
    LET value_len == Len(b)
        child_offset == GetListSize(vec)
        flag_one == LoadUInt32(b, 1, oob)
        value_oid == LoadUInt32(b, 9, oob)
        array_length == LoadUInt32(b, 13, oob)
        array_dim == LoadUInt32(b, 17, oob)
        r == ElementLoop(b, oob, debug, child_offset, array_length, 0,
                         [status |-> "ok", value_ptr |-> 21, child |-> vec.child])
        empty == [vec EXCEPT !.entries = Append(@, ListEntry(child_offset, 0))]
    IN  IF value_len < 1 THEN empty
        ELSE IF debug /\ ~(value_len >= 3 * 4) THEN [vec EXCEPT !.status = "assert"]
        ELSE IF flag_one = 0 THEN empty
        ELSE IF debug /\ value_oid # typelem THEN [vec EXCEPT !.status = "assert"]
        ELSE IF array_dim # 1 THEN [vec EXCEPT !.status = "throw"]
        ELSE IF r.status # "ok" THEN [vec EXCEPT !.status = r.status, !.child = r.child]
        ELSE [vec EXCEPT !.child = r.child, !.size = child_offset + array_length,
                         !.entries = Append(@, ListEntry(child_offset, array_length))]

(***************************************************************************)
(* The wire form PostgreSQL sends for an array: ndim, the has-null flag,   *)
(* the element oid, then a length and a lower bound per dimension, then    *)
(* the elements, each a length (-1 for NULL) and its bytes.  An array      *)
(* without elements has ndim = 0.                                          *)
(***************************************************************************)
Int32Bytes(n) == IF n < 0 THEN <<255, 255, 255, 255>> ELSE <<0, 0, n \div 256, n % 256>>
RECURSIVE Int32s(_)
Int32s(ns) == IF ns = <<>> THEN <<>> ELSE Int32Bytes(Head(ns)) \o Int32s(Tail(ns))
RECURSIVE ElemBytes(_)
ElemBytes(es) ==
    IF es = <<>> THEN <<>>
    ELSE (IF Head(es).valid THEN Int32s(<<4, Head(es).val>>) ELSE Int32Bytes(0 - 1))
            \o ElemBytes(Tail(es))
HasNull(es) == IF \E i \in DOMAIN es : ~es[i].valid THEN 1 ELSE 0

ElemValues == {[valid |-> TRUE, val |-> 7], [valid |-> FALSE, val |-> 0]}
ElemLists == UNION {[1..n -> ElemValues] : n \in 1..MaxElems}
LowerBounds == {0, 1}

ZeroLength == [wire |-> <<>>, ndim |-> 0, lb |-> 1, elems |-> <<>>]
EmptyArray == [wire |-> Int32s(<<0, 0, typelem>>), ndim |-> 0, lb |-> 1, elems |-> <<>>]
OneDim(lb, es) ==
    [wire |-> Int32s(<<1, HasNull(es), typelem, Len(es), lb>>) \o ElemBytes(es),
     ndim |-> 1, lb |-> lb, elems |-> es]
\* the array with the one row es
TwoDim(es) ==
    [wire |-> Int32s(<<2, HasNull(es), typelem, 1, 1, Len(es), 1>>) \o ElemBytes(es),
     ndim |-> 2, lb |-> 1, elems |-> es]
Arrays ==
    {ZeroLength, EmptyArray} \cup {OneDim(lb, es) : lb \in LowerBounds, es \in ElemLists}
        \cup {TwoDim(es) : es \in ElemLists}

\* ProcessValue called by PostgresScan on the field of the list column of the
\* next row; an exception ends the scan
DecodeArray(a, oob, debug) ==
    /\ list_vec.status = "ok"
    /\ Len(list_vec.log) < MaxRows
    /\ LET r == ProcessList(list_vec, a.wire, oob, debug)
       IN  list_vec' = [r EXCEPT !.log = Append(@, [array |-> a, size_before |-> list_vec.size,
                                                    status |-> r.status])]
    /\ UNCHANGED <<catalog, bind_cols, numeric, rowid, filter>>
    /\ UNCHANGED scan_vars

NextArray == \E a \in Arrays, oob \in {0, 255}, debug \in BOOLEAN : DecodeArray(a, oob, debug)

SpecArray == Init /\ [][NextArray]_vars

(***************************************************************************)
(* Claims about the array codec.                                           *)
(***************************************************************************)
\* C11: an array field whose envelope has ndim other than 0 or 1 fails with
\* an error and gets no list entry; ndim = 0 gives an empty list; ndim = 1 is
\* decoded whatever its lower bound is.
C11_Dimensions ==
    \A i \in DOMAIN list_vec.log :
        LET row == list_vec.log[i]
        IN  Len(row.array.wire) >= 1 =>
               CASE row.array.ndim = 0 ->
                        /\ row.status = "ok"
                        /\ list_vec.entries[i].length = 0
                 [] row.array.ndim = 1 -> row.status = "ok"
                 [] OTHER -> row.status = "throw" /\ Len(list_vec.entries) < i

\* a row that was decoded from an array of one dimension or without elements
Decoded(row) == row.array.ndim \in {0, 1} /\ row.status = "ok"

C12_Entries ==
    \A i \in DOMAIN list_vec.log :
        LET row == list_vec.log[i]
            es == row.array.elems
            size_after == IF i < Len(list_vec.log) THEN list_vec.log[i + 1].size_before
                          ELSE list_vec.size
        IN  Decoded(row) =>
               /\ list_vec.entries[i] = ListEntry(row.size_before, Len(es))
               /\ size_after = row.size_before + Len(es)
               /\ \A k \in 1..Len(es) :
                      /\ list_vec.child[row.size_before + k].valid = es[k].valid
                      /\ es[k].valid => list_vec.child[row.size_before + k].val = es[k].val

C12_ChildKept ==
    \A k \in 1..list_vec.size : list_vec'.child[k] = list_vec.child[k]

SignLimb(limb) == IF limb >= 2^15 THEN Limb - 1 ELSE 0
\* int64_t x = LoadInteger<int32_t>() and int64_t x = LoadInteger<int16_t>()
Int64FromInt32(b, p, oob) ==
    LET high == LoadUInt16(b, p, oob)
    IN  <<SignLimb(high), SignLimb(high), high, LoadUInt16(b, p + 2, oob)>>
Int64FromInt16(b, p, oob) ==
    LET low == LoadUInt16(b, p, oob)
    IN  <<SignLimb(low), SignLimb(low), SignLimb(low), low>>
ShiftLeft16(x) == <<x[2], x[3], x[4], 0>>
Add64(x, y) ==
    LET s4 == x[4] + y[4]
        s3 == x[3] + y[3] + s4 \div Limb
        s2 == x[2] + y[2] + s3 \div Limb
        s1 == x[1] + y[1] + s2 \div Limb
    IN  <<s1 % Limb, s2 % Limb, s3 % Limb, s4 % Limb>>

\* (page_index << 16LL) + row_in_page
RowId(b, oob) == Add64(ShiftLeft16(Int64FromInt32(b, 1, oob)), Int64FromInt16(b, 5, oob))

ByteSamples == {0, 127, 128, 255}
CtidFields == [1..6 -> ByteSamples]

InitRowId ==
    /\ ScanInit
    /\ catalog = <<>>
    /\ bind_cols = <<>>
    /\ numeric = NoNumeric
    /\ list_vec = NoList
    /\ filter = NoFilter
    /\ \E wire \in CtidFields : rowid = [NoRowId EXCEPT !.wire = wire]

\* the branch col_idx == COLUMN_IDENTIFIER_ROW_ID of PostgresScan
ReadRowId(oob) ==
    /\ rowid.status = "none"
    /\ rowid' = [rowid EXCEPT !.status = "done", !.value = RowId(rowid.wire, oob)]
    /\ UNCHANGED <<catalog, bind_cols, numeric, list_vec, filter>>
    /\ UNCHANGED scan_vars

NextRowId == \E oob \in {0, 255} : ReadRowId(oob)

SpecRowId == InitRowId /\ [][NextRowId]_vars

\* C13: the row id of the ctid (page, tuple), page an unsigned 32-bit and
\* tuple an unsigned 16-bit big-endian integer, is page * 65536 + tuple, a
\* non-negative 64-bit value.
C13_RowId ==
    rowid.status = "done" =>
        /\ rowid.value = <<0, LoadUInt16(rowid.wire, 1, 0), LoadUInt16(rowid.wire, 3, 0),
                           LoadUInt16(rowid.wire, 5, 0)>>
        /\ rowid.value[1] < 2^15

(***************************************************************************)
(* Filter pushdown.  A string is a sequence of pieces: the characters of a *)
(* constant one by one, and a piece for each keyword, operator and name.   *)
(* A TableFilter is its filter_type with the comparison_type and constant  *)
(* of a ConstantFilter and the child_filters of a conjunction.             *)
(***************************************************************************)
MaxConstant == 2

Quote == "'"
Backslash == "\\"
TableFilter(filter_type, comparison_type, constant, child_filters) ==
    [filter_type |-> filter_type, comparison_type |-> comparison_type,
     constant |-> constant, child_filters |-> child_filters]

Returns(str) == [status |-> "ok", sql |-> str]
Throws == [status |-> "throw", sql |-> <<>>]

TransformComparision(type) ==
    CASE type = "COMPARE_EQUAL" -> Returns(<<"=">>)
      [] type = "COMPARE_NOTEQUAL" -> Returns(<<"!=">>)
      [] type = "COMPARE_LESSTHAN" -> Returns(<<"<">>)
      [] type = "COMPARE_GREATERTHAN" -> Returns(<<">">>)
      [] type = "COMPARE_LESSTHANOREQUALTO" -> Returns(<<"<=">>)
      [] type = "COMPARE_GREATERTHANOREQUALTO" -> Returns(<<">=">>)
      [] OTHER -> Throws

\* StringUtil::Join
RECURSIVE Join(_, _)
Join(entries, sep) ==
    IF entries = <<>> THEN <<>>
    ELSE IF Len(entries) = 1 THEN Head(entries)
    ELSE Head(entries) \o sep \o Join(Tail(entries), sep)

\* "'" + constant_filter.constant.ToString() + "'"
ConstantString(constant) == <<Quote>> \o constant \o <<Quote>>

RECURSIVE TransformFilter(_, _)
\* CreateExpression: the first child that throws ends it
CreateExpression(column_name, filters, op) ==
    LET filter_entries == [i \in DOMAIN filters |-> TransformFilter(column_name, filters[i])]
    IN  IF \E i \in DOMAIN filters : filter_entries[i].status = "throw" THEN Throws
        ELSE Returns(<<"(">> \o Join([i \in DOMAIN filters |-> filter_entries[i].sql],
                                     <<" ", op, " ">>) \o <<")">>)

TransformFilter(column_name, f) ==
    CASE f.filter_type = "IS_NULL" -> Returns(<<column_name, " IS NULL">>)
      [] f.filter_type = "IS_NOT_NULL" -> Returns(<<column_name, " IS NOT NULL">>)
      [] f.filter_type = "CONJUNCTION_AND" -> CreateExpression(column_name, f.child_filters, "AND")
      [] f.filter_type = "CONJUNCTION_OR" -> CreateExpression(column_name, f.child_filters, "OR")
      [] f.filter_type = "CONSTANT_COMPARISON" ->
            LET operator_string == TransformComparision(f.comparison_type)
            IN  IF operator_string.status = "throw" THEN Throws
                ELSE Returns(<<column_name, " ">> \o operator_string.sql \o <<" ">>
                                \o ConstantString(f.constant))
      [] OTHER -> Throws

\* filter_string of PostgresInitInternal for the one entry of lstate.filters
FilterString(column_name, f) ==
    LET entry == TransformFilter(column_name, f)
    IN  IF entry.status = "throw" THEN Throws
        ELSE Returns(<<" AND ">> \o Join(<<entry.sql>>, <<" AND ">>))

(***************************************************************************)
(* The filters the optimizer may push down: every leaf, and conjunctions   *)
(* of one or two leaves.  COMPARE_DISTINCT_FROM stands for the comparison  *)
(* types and DYNAMIC_FILTER for the filter types the code has no case for. *)
(***************************************************************************)
ConstantChars == {"a", Quote, Backslash}
Constants == UNION {[1..n -> ConstantChars] : n \in 0..MaxConstant}
ComparisonTypes ==
    {"COMPARE_EQUAL", "COMPARE_NOTEQUAL", "COMPARE_LESSTHAN", "COMPARE_GREATERTHAN",
     "COMPARE_LESSTHANOREQUALTO", "COMPARE_GREATERTHANOREQUALTO", "COMPARE_DISTINCT_FROM"}
NullTests == {TableFilter(t, "", <<>>, <<>>) : t \in {"IS_NULL", "IS_NOT_NULL"}}
Unsupported == {TableFilter("DYNAMIC_FILTER", "", <<>>, <<>>)}
Comparisons ==
    {TableFilter("CONSTANT_COMPARISON", x[1], x[2], <<>>) : x \in ComparisonTypes \X Constants}
Leaves == NullTests \cup Unsupported \cup Comparisons
ChildLeaves ==
    {TableFilter("IS_NULL", "", <<>>, <<>>)} \cup Unsupported
        \cup {TableFilter("CONSTANT_COMPARISON", x[1], x[2], <<>>) :
                  x \in {"COMPARE_EQUAL", "COMPARE_DISTINCT_FROM"} \X Constants}
Conjunctions ==
    {TableFilter(x[1], "", <<>>, x[2]) :
        x \in {"CONJUNCTION_AND", "CONJUNCTION_OR"} \X UNION {[1..n -> ChildLeaves] : n \in 1..2}}
TableFilters == Leaves \cup Conjunctions

InitFilter ==
    /\ ScanInit
    /\ catalog = <<>>
    /\ bind_cols = <<>>
    /\ numeric = NoNumeric
    /\ list_vec = NoList
    /\ rowid = NoRowId
    /\ \E f \in TableFilters : filter = [NoFilter EXCEPT !.node = f]

\* the filter part of PostgresInitInternal; an exception of TransformFilter
\* leaves it before lstate.sql is built
BuildFilterString ==
    /\ filter.status = "none"
    /\ LET r == FilterString("column_name", filter.node)
       IN  filter' = [filter EXCEPT !.status = r.status, !.sql = r.sql]
    /\ UNCHANGED <<catalog, bind_cols, numeric, list_vec, rowid>>
    /\ UNCHANGED scan_vars

SpecFilter == InitFilter /\ [][BuildFilterString]_vars

(***************************************************************************)
(* Claims about filter pushdown.                                           *)
(***************************************************************************)
\* a scan of SQL text from position i: the literals closed so far, whether
\* the text ends inside a literal, and whether a character of a constant
\* stands outside every literal.  escapes says whether a backslash inside a
\* literal escapes the next character.
RECURSIVE LexSql(_, _, _, _, _)
LexSql(sql, i, escapes, inside, r) ==
    IF i > Len(sql) THEN [r EXCEPT !.inside = inside]
    ELSE IF ~inside
    THEN IF sql[i] = Quote THEN LexSql(sql, i + 1, escapes, TRUE, r)
         ELSE LexSql(sql, i + 1, escapes, FALSE,
                     [r EXCEPT !.leak = @ \/ sql[i] \in ConstantChars])
    ELSE IF escapes /\ sql[i] = Backslash THEN LexSql(sql, i + 2, escapes, TRUE, r)
    ELSE IF sql[i] = Quote
    THEN IF i < Len(sql) /\ sql[i + 1] = Quote THEN LexSql(sql, i + 2, escapes, TRUE, r)
         ELSE LexSql(sql, i + 1, escapes, FALSE, [r EXCEPT !.literals = @ + 1])
    ELSE LexSql(sql, i + 1, escapes, TRUE, r)
Lexed(sql, escapes) ==
    LexSql(sql, 1, escapes, FALSE, [literals |-> 0, inside |-> FALSE, leak |-> FALSE])

RECURSIVE ConstantCount(_)
RECURSIVE SumCounts(_)
SumCounts(fs) == IF fs = <<>> THEN 0 ELSE ConstantCount(Head(fs)) + SumCounts(Tail(fs))
ConstantCount(f) ==
    IF f.filter_type = "CONSTANT_COMPARISON" THEN 1 ELSE SumCounts(f.child_filters)

\* C14: in the filter text of the COPY query every constant is one quoted
\* literal: read with or without backslash escapes, the text has as many
\* literals as the filter has constants, ends outside a literal, and no
\* character of a constant stands outside a literal.
C14_ConstantsQuoted ==
    filter.status = "ok" =>
        \A escapes \in BOOLEAN :
            Lexed(filter.sql, escapes) =
                [literals |-> ConstantCount(filter.node), inside |-> FALSE, leak |-> FALSE]

RECURSIVE HasUnsupported(_)
HasUnsupported(f) ==
    \/ f.filter_type \notin {"IS_NULL", "IS_NOT_NULL", "CONJUNCTION_AND", "CONJUNCTION_OR",
                              "CONSTANT_COMPARISON"}
    \/ f.filter_type = "CONSTANT_COMPARISON" /\ f.comparison_type = "COMPARE_DISTINCT_FROM"
    \/ \E i \in DOMAIN f.child_filters : HasUnsupported(f.child_filters[i])

\* C15: a filter with an unsupported node does not fail the construction of
\* the COPY query: the query is built, and the filter is left out of it.
C15_UnsupportedOmitted ==
    (filter.status # "none" /\ HasUnsupported(filter.node)) =>
        filter.status = "ok" /\ filter.sql = <<>>

(***************************************************************************)
(* Claims about the page cursor.                                           *)
(***************************************************************************)
\* the server's comparison of tids <<page, tuple>>
TidLeq(a, b) == PageLess(a[1], b[1]) \/ (a[1] = b[1] /\ a[2] <= b[2])
\* ctid BETWEEN '(lo,0)'::tid AND '(hi,0)'::tid
InTask(task, page, tuple) ==
    TidLeq(<<task.lo, 0>>, <<page, tuple>>) /\ TidLeq(<<page, tuple>>, <<task.hi, 0>>)
SamplePages ==
    {U(n) : n \in 0..(MaxPages + MaxPagesPerTask + 1)} \cup {<<1, 0>>, <<65535, 65534>>}
SampleTuples == {1, 2, 65535}
Exhausted == phase \in {"running", "destroyed"} /\ ~PageLess(page_idx, pages_approx)
TailTasks == {i \in DOMAIN handed : handed[i].hi = POSTGRES_TID_MAX}

\* C1: once the cursor is exhausted, every row location (page below
\* U32_MAX, tuple >= 1) lies in the ctid range of exactly one handed-out task.
C1_ExactlyOneTask ==
    Exhausted =>
        \A page \in SamplePages, tuple \in SampleTuples :
            Cardinality({i \in DOMAIN handed : InTask(handed[i], page, tuple)}) = 1

C1_Witness == Exhausted /\ Len(handed) >= 2 /\ \E w \in Workers : pc[w] = "loop"

\* C2: at most one task has hi = U32_MAX; it is the last one handed out;
\* once the cursor is exhausted there is exactly one; after it every
\* PostgresParallelStateNext returns no work; with approx_pages = 1 the only
\* task is (0, U32_MAX).
C2_TailState ==
    /\ Cardinality(TailTasks) <= 1
    /\ TailTasks # {} => (TailTasks = {Len(handed)} /\ Exhausted)
    /\ Exhausted => Cardinality(TailTasks) = 1
    /\ (Exhausted /\ pages_approx = U(1)) =>
           handed = <<[lo |-> U(0), hi |-> POSTGRES_TID_MAX]>>

C2_AfterTail ==
    \A w \in Workers :
        (TailTasks # {} /\ pc[w] = "next" /\ pc'[w] # "next") =>
            (handed' = handed /\ lstate'[w].done /\ pc'[w] = "idle")

C2_OneTailTask == [](C2_TailState) /\ [][C2_AfterTail]_vars

C2_Witness ==
    /\ Exhausted
    /\ Len(handed) >= 2
    /\ \E w \in Workers : pc[w] = "idle" /\ lstate[w].done /\ ret[w] = "scan"

\* C3: the reported maximum worker count is max(1, approx_pages / pages_per_task),
\* never 0.
C3_MaxThreads ==
    phase = "running" =>
        /\ max_threads >= 1
        /\ max_threads = (IF PageDiv(pages_approx, pages_per_task) > 1
                          THEN PageDiv(pages_approx, pages_per_task) ELSE 1)

(***************************************************************************)
(* Claims about the connections and the COPY buffers.                      *)
(***************************************************************************)
\* C4: a worker that has issued a COPY has begun a REPEATABLE READ READ ONLY
\* transaction and, unless the scan is in recovery, has set exactly the snapshot
\* exported at Bind, which bind_data.snapshot keeps; in recovery no snapshot is
\* exported or set.
C4_SharedSnapshot ==
    /\ phase # "unbound" => snapshot = exported
    /\ in_recovery => exported = NoSnapshot
    /\ (phase # "unbound" /\ ~in_recovery) => exported \in SnapshotIds
    /\ \A w \in Workers :
          pgconn[w].copies > 0 =>
              /\ pgconn[w].txn = RepeatableRead
              /\ pgconn[w].snap = exported

C4_Witness ==
    /\ ~in_recovery
    /\ \A w \in TwoWorkers : pgconn[w].copies > 0 /\ pgconn[w].snap = exported

\* C5: when the scan is over every connection opened was finished exactly
\* once, no connection is ever finished twice, and outside a PostgresScan call
\* no COPY buffer is left unfreed.
C5_AllReleased ==
    /\ \A o \in Owners : pgconn[o].finished <= 1
    /\ \A w \in Workers : pc[w] \in {"idle", "error", "destroyed"} => outstanding[w] = 0
    /\ phase = "destroyed" =>
          \A o \in Owners : pgconn[o].opened => pgconn[o].finished = 1

(***************************************************************************)
(* Claims about the COPY header.                                           *)
(***************************************************************************)
BadFirstMessage(msg) == Len(msg) < 19 \/ SubSeq(msg, 1, 11) # Signature

\* C10: a first message shorter than 19 bytes, or whose first 11 bytes are not
\* the binary COPY signature, makes the worker fail before it decodes a tuple of
\* that stream; a first message that starts with the signature passes the check.
C10_HeaderChecked ==
    \A w \in Workers :
        header_seen[w].seen =>
            IF BadFirstMessage(header_seen[w].msg)
            THEN ~header_seen[w].passed /\ pc[w] \in {"error", "destroyed"}
            ELSE header_seen[w].passed

=============================================================================
